---- MODULE Spec2Model ----
(***************************************************************************)
(* pqConsole: the glue between SWI-Prolog foreign predicates, running on   *)
(* runtime worker threads, and the Qt console widget (pqConsole.cpp).      *)
(*                                                                         *)
(* Four specifications share the module's variables:                       *)
(*   SpecTree   the console locator (search_widget) over widget forests    *)
(*   SpecMenu   the menu bridge (win_insert_menu, win_insert_menu_item)    *)
(*   SpecProps  the property bridge (unify, console_settings)              *)
(*   Spec       the foreign predicates called from worker threads and the  *)
(*              units of work they hand to the GUI thread                  *)
(***************************************************************************)
EXTENDS Integers, Sequences, FiniteSets, TLC

VARIABLES
    widgets,    \* the widget forest: widgets[i] = [parent, kind, thid]
    found,      \* SpecTree: the last locator call and the widget it returned
    frame,      \* SpecMenu: what frames the caller's console ("none": no console)
    mbar,       \* SpecMenu: the main window's menu bar, a sequence of menus
    lastOp,     \* SpecMenu: the last menu predicate called, with its arguments
    props,      \* SpecProps: the values of the console's reflected properties
    lastSet,    \* SpecProps: the last console_settings call and its outcome
    lastCall,   \* SpecCalls: the last predicate called, its outcome and effects
    pc,         \* Spec: where each worker thread is: "idle", "stop", "read"
    call,       \* Spec: the predicate each worker thread called last
    queue,      \* Spec: the closures handed to exec_func and not yet taken
    gui,        \* Spec: the GUI thread: its event loop and the closure it runs
    sync,       \* Spec: the exec_sync of each thread's call: signalled or not
    out,        \* Spec: the variables Choice and ok of each thread's call
    work,       \* Spec: how far the unit of work of each thread's call is
    retval      \* Spec: the value each thread's last call returned

treeVars == <<widgets, found>>
menuVars == <<frame, mbar, lastOp>>
propVars == <<props, lastSet>>
dispVars == <<pc, call, queue, gui, sync, out, work, retval>>
vars == <<widgets, found, frame, mbar, lastOp, props, lastSet, lastCall,
          pc, call, queue, gui, sync, out, work, retval>>

(***************************************************************************)
(* Bounds                                                                  *)
(***************************************************************************)
MaxWidgets == 4
MaxItems == 3
MaxOpts == 2
MaxWindows == 2
MaxQueue == 2

\* Prolog thread identifiers of the runtime worker threads (PL_thread_self)
Threads == {1, 2}

\* the null pointer a search returns when nothing matches
NoWidget == 0

(***************************************************************************)
(* The widget forest (owned by the toolkit).  A widget is registered after *)
(* its parent, so widget i has a parent in 0..i-1 (0: a top-level object). *)
(* QObject::children() lists the children in registration order.           *)
(***************************************************************************)
Kinds == {"QWidget", "QObject", "ConsoleEdit"}

isWidgetType(ws, i) == ws[i].kind # "QObject"

\* ws is a forest the toolkit can build: only widgets are top-level windows,
\* a widget's parent is a widget, only a console carries a thread marker
WellFormed(ws) ==
    \A i \in 1..Len(ws) :
        /\ ws[i].parent < i
        /\ (ws[i].kind = "ConsoleEdit") = (ws[i].thid \in Threads)
        /\ ws[i].parent = 0 => isWidgetType(ws, i)
        /\ (ws[i].parent # 0 /\ isWidgetType(ws, i)) => isWidgetType(ws, ws[i].parent)

Node(n) == [parent : 0..(n - 1), kind : Kinds, thid : {0} \cup Threads]

RECURSIVE Forests(_)
Forests(n) ==
    IF n = 0 THEN {<<>>}
    ELSE LET smaller == Forests(n - 1)
         IN  smaller \cup
             {Append(ws, nd) : ws \in {f \in smaller : Len(f) = n - 1},
                               nd \in {x \in Node(n) :
                                         /\ (x.kind = "ConsoleEdit") = (x.thid \in Threads)
                                         /\ x.parent = 0 => x.kind # "QObject"}}

\* p->children(): the children of p (0: the parentless objects), in registration order
children(ws, p) ==
    SelectSeq([i \in 1..Len(ws) |-> i], LAMBDA i : ws[i].parent = p)

\* QApplication::topLevelWidgets()
topLevelWidgets(ws) ==
    SelectSeq(children(ws, 0), LAMBDA i : isWidgetType(ws, i))

\* foreach (auto c, p->children()) if (c->isWidgetType()) s.push(c);
push_children(ws, s, p) ==
    s \o SelectSeq(children(ws, p), LAMBDA c : isWidgetType(ws, c))

\* a queue in place of the stack: the widget registered first is taken first
RECURSIVE stack_loop_fifo(_, _, _)
stack_loop_fifo(ws, s, M) ==
    IF s = <<>> THEN NoWidget
    ELSE LET p == Head(s)
         IN  IF p \in M THEN p
             ELSE stack_loop_fifo(ws, push_children(ws, Tail(s), p), M)

\* while (!s.isEmpty()) { p = s.pop(); if (match(p)) return p; push children }
\* M is the set of widgets the predicate match accepts
RECURSIVE stack_loop(_, _, _)
stack_loop(ws, s, M) ==
    IF s = <<>> THEN NoWidget
    ELSE LET p == s[Len(s)]
             rest == SubSeq(s, 1, Len(s) - 1)
         IN  IF p \in M THEN p
             ELSE stack_loop(ws, push_children(ws, rest, p), M)

\* foreach (auto widget, QApplication::topLevelWidgets()) { ... } return 0;
RECURSIVE search_tops(_, _, _)
search_tops(ws, tops, M) ==
    IF tops = <<>> THEN NoWidget
    ELSE LET r == stack_loop(ws, <<Head(tops)>>, M)
         IN  IF r # NoWidget THEN r ELSE search_tops(ws, Tail(tops), M)

search_widget(ws, M) == search_tops(ws, topLevelWidgets(ws), M)

\* ConsoleEdit::match_thread: the console's owning-thread marker equals thid
match_thread(ws, i, thid) == ws[i].thid = thid

\* the lambda of console_by_thread: a ConsoleEdit whose thread marker matches
by_thread_matches(ws, thid) ==
    {i \in 1..Len(ws) : ws[i].kind = "ConsoleEdit" /\ match_thread(ws, i, thid)}

\* the lambda of console_peek_first: any ConsoleEdit
peek_first_matches(ws) == {i \in 1..Len(ws) : ws[i].kind = "ConsoleEdit"}

console_by_thread(ws, thid) == search_widget(ws, by_thread_matches(ws, thid))

console_peek_first(ws) == search_widget(ws, peek_first_matches(ws))

(***************************************************************************)
(* The variables a specification does not use keep these values            *)
(***************************************************************************)
NoCall == [variant |-> "none", thid |-> 0, result |-> NoWidget]

NoOp == [op |-> "none", Pulldown |-> "", Label |-> "", Before |-> "",
         Goal |-> <<>>, twice |-> FALSE, ret |-> FALSE]

TreeIdle == widgets = <<>> /\ found = NoCall

MenuIdle == frame = "none" /\ mbar = <<>> /\ lastOp = NoOp

NoSet == [opts |-> <<>>, ret |-> "", bound |-> <<>>]

PropsIdle == props = <<>> /\ lastSet = NoSet

NoPredicate == [name |-> "none", thid |-> 0, ret |-> "", effects |-> {}]

CallsIdle == lastCall = NoPredicate

DispIdle ==
    /\ pc = <<>> /\ call = <<>> /\ queue = <<>> /\ gui = <<>>
    /\ sync = <<>> /\ out = <<>> /\ work = <<>> /\ retval = <<>>

(***************************************************************************)
(* SpecTree: the locator applied to every well-formed forest               *)
(***************************************************************************)
InitTree ==
    /\ widgets \in {ws \in Forests(MaxWidgets) : WellFormed(ws)}
    /\ found = NoCall
    /\ MenuIdle
    /\ PropsIdle
    /\ CallsIdle
    /\ DispIdle

LocateByThread ==
    \E t \in Threads :
        /\ found' = [variant |-> "by_thread", thid |-> t,
                     result |-> console_by_thread(widgets, t)]
        /\ UNCHANGED <<widgets, menuVars, propVars, lastCall, dispVars>>

LocatePeekFirst ==
    /\ found' = [variant |-> "peek_first", thid |-> 0,
                 result |-> console_peek_first(widgets)]
    /\ UNCHANGED <<widgets, menuVars, propVars, lastCall, dispVars>>

NextTree == LocateByThread \/ LocatePeekFirst

SpecTree == InitTree /\ [][NextTree]_vars

\* the widgets the predicate of the recorded call accepts
MatchesOf(c) ==
    IF c.variant = "by_thread" THEN by_thread_matches(widgets, c.thid)
    ELSE peek_first_matches(widgets)

RECURSIVE Concat(_)
Concat(ss) == IF ss = <<>> THEN <<>> ELSE Head(ss) \o Concat(Tail(ss))

Reverse(s) == [i \in 1..Len(s) |-> s[Len(s) + 1 - i]]

\* the depth-first visiting order of the widget tree rooted at p, the children
\* of every widget taken in registration order (rev = FALSE) or last-registered
\* first (rev = TRUE)
RECURSIVE Preorder(_, _, _)
Preorder(ws, p, rev) ==
    LET cs == SelectSeq(children(ws, p), LAMBDA c : isWidgetType(ws, c))
        ord == IF rev THEN Reverse(cs) ELSE cs
    IN  <<p>> \o Concat([k \in 1..Len(ord) |-> Preorder(ws, ord[k], rev)])

VisitOrder(ws, rev) ==
    LET tops == topLevelWidgets(ws)
    IN  Concat([k \in 1..Len(tops) |-> Preorder(ws, tops[k], rev)])

FirstIn(order, M) ==
    IF \E k \in 1..Len(order) : order[k] \in M
    THEN order[CHOOSE k \in 1..Len(order) :
                   /\ order[k] \in M
                   /\ \A j \in 1..(k - 1) : order[j] \notin M]
    ELSE NoWidget

\* C9 (as stated): the locator returns the first matching widget of the
\* depth-first order that visits children in registration order, and
\* not-found exactly when no widget matches.
C9_RegistrationOrder ==
    found.variant # "none" =>
        /\ found.result = FirstIn(VisitOrder(widgets, FALSE), MatchesOf(found))
        /\ (found.result = NoWidget) = (MatchesOf(found) = {})

\* C9 (amended): the locator returns the first matching widget of the
\* depth-first order that visits the children of every widget last-registered
\* first (the reverse of registration order), and not-found exactly when no
\* widget of any tree matches.
C9_ReverseRegistrationOrder ==
    found.variant # "none" =>
        /\ found.result = FirstIn(VisitOrder(widgets, TRUE), MatchesOf(found))
        /\ (found.result = NoWidget) = (MatchesOf(found) = {})

\* two consoles of the calling thread are siblings, the one found has a child
\* subtree visited before its earlier sibling, and the search returned one
C9_Witness ==
    /\ found.variant = "by_thread"
    /\ found.result # NoWidget
    /\ \E i, j \in by_thread_matches(widgets, found.thid) :
          i < j /\ widgets[i].parent = widgets[j].parent /\ found.result = j

(***************************************************************************)
(* SpecMenu: the menu bridge.  A menu bar is a sequence of menus           *)
(* [text, items]; a menu's items are actions [text, toolTip, sep].  Text   *)
(* that the code builds by concatenation (the tool tip) is a sequence of   *)
(* tokens, so that "win_menu" + ':' + Goal and Goal alone differ.          *)
(* exec_func runs the closures of one caller in the order of the calls, so *)
(* every action below is a predicate together with the closure it submits. *)
(***************************************************************************)
MenuLabels == {"File", "Edit"}
MenuBefores == {"-", "File", "Help"}
Pulldowns == {"File", "Help"}
ItemLabels == {"a", "--"}
ItemBefores == {"-", "a", "b", "--"}
Goals == {<<"g1">>, <<"g2">>}
Frames == {"none", "QWidget", "QMainWindow"}

\* ctxtmod = "win_menu";
ctxtmod == <<"win_menu">>

\* foreach (QAction *ac, actions) if (ac->text() == text): the first such
\* action's index, 0 when the loop ends without one
first_action(actions, text) ==
    IF \E k \in 1..Len(actions) : actions[k].text = text
    THEN CHOOSE k \in 1..Len(actions) :
            /\ actions[k].text = text
            /\ \A j \in 1..(k - 1) : actions[j].text # text
    ELSE 0

\* QWidget::insertAction(before, a): a goes right before the action at index k
insertAction(actions, k, a) ==
    SubSeq(actions, 1, k - 1) \o <<a>> \o SubSeq(actions, k, Len(actions))

\* new QMenu(Label): an empty menu whose menu bar action has text Label
QMenu(Label) == [text |-> Label, items |-> <<>>]

\* QMenu::addSeparator / insertSeparator: a separator action, no text
Separator == [text |-> "", toolTip |-> <<>>, sep |-> TRUE]

\* the closure of win_insert_menu without the search for an existing menu
win_insert_menu_unchecked(bar, fr, Label, Before) ==
    IF fr # "QMainWindow" THEN bar
    ELSE IF first_action(bar, Before) # 0
         THEN insertAction(bar, first_action(bar, Before), QMenu(Label))
         ELSE IF Before = "-" THEN Append(bar, QMenu(Label)) ELSE bar

\* the closure win_insert_menu hands to exec_func
win_insert_menu_lambda(bar, fr, Label, Before) ==
    IF fr # "QMainWindow" THEN bar
    ELSE IF first_action(bar, Label) # 0 THEN bar
    ELSE IF first_action(bar, Before) # 0
         THEN insertAction(bar, first_action(bar, Before), QMenu(Label))
         ELSE IF Before = "-" THEN Append(bar, QMenu(Label))
              ELSE bar   \* qDebug() << "failed win_insert_menu"

\* add_action: a new action with text Label and tool tip ctxtmod:Goal, placed
\* before the action at index before, or last when before is 0
add_action(items, Label, mod, Goal, before) ==
    LET a == [text |-> Label, toolTip |-> mod \o <<":">> \o Goal, sep |-> FALSE]
    IN  IF before # 0 THEN insertAction(items, before, a) ELSE Append(items, a)

\* the existing item is taken out and created again as the last item
rebind_recreate(items, k, Goal) ==
    add_action(SubSeq(items, 1, k - 1) \o SubSeq(items, k + 1, Len(items)),
               items[k].text, ctxtmod, Goal, 0)

\* bc->setToolTip(Goal); on the existing item at index k
rebind(items, k, Goal) == [items EXCEPT ![k].toolTip = Goal]

\* the body run for the pulldown: [items, returned], returned telling whether
\* the closure returned (TRUE) or fell through to go on with the foreach
pulldown_body(items, Label, Before, Goal) ==
    IF Label # "--" /\ first_action(items, Label) # 0
    THEN [items |-> rebind(items, first_action(items, Label), Goal), returned |-> TRUE]
    ELSE IF Before = "-"
    THEN [items |-> IF Label = "--" THEN Append(items, Separator)
                    ELSE add_action(items, Label, ctxtmod, Goal, 0),
          returned |-> TRUE]
    ELSE IF first_action(items, Before) # 0
    THEN [items |-> IF Label = "--"
                    THEN insertAction(items, first_action(items, Before), Separator)
                    ELSE add_action(items, Label, ctxtmod, Goal,
                                    first_action(items, Before)),
          returned |-> TRUE]
    ELSE LET withAnchor == add_action(items, Before, ctxtmod, <<>>, 0)
         IN  [items |-> add_action(withAnchor, Label, ctxtmod, Goal, Len(withAnchor)),
              returned |-> FALSE]

\* foreach (QAction *ac, mw->menuBar()->actions()) if (ac->text() == Pulldown)
RECURSIVE pulldown_loop(_, _, _, _, _, _)
pulldown_loop(bar, k, Pulldown, Label, Before, Goal) ==
    IF k > Len(bar) THEN bar
    ELSE IF bar[k].text # Pulldown
    THEN pulldown_loop(bar, k + 1, Pulldown, Label, Before, Goal)
    ELSE LET r == pulldown_body(bar[k].items, Label, Before, Goal)
             nbar == [bar EXCEPT ![k].items = r.items]
         IN  IF r.returned THEN nbar
             ELSE pulldown_loop(nbar, k + 1, Pulldown, Label, Before, Goal)

\* the closure win_insert_menu_item hands to exec_func
win_insert_menu_item_lambda(bar, fr, Pulldown, Label, Before, Goal) ==
    IF fr # "QMainWindow" THEN bar
    ELSE pulldown_loop(bar, 1, Pulldown, Label, Before, Goal)

RECURSIVE TotalItems(_)
TotalItems(bar) ==
    IF bar = <<>> THEN 0 ELSE Len(Head(bar).items) + TotalItems(Tail(bar))

InitMenu ==
    /\ frame \in Frames
    /\ mbar = <<>>
    /\ lastOp = NoOp
    /\ TreeIdle
    /\ PropsIdle
    /\ CallsIdle
    /\ DispIdle

\* win_insert_menu(+Label, +Before): FALSE without a console, else the closure
win_insert_menu ==
    \E Label \in MenuLabels, Before \in MenuBefores :
        LET op == [op |-> "win_insert_menu", Pulldown |-> "", Label |-> Label,
                   Before |-> Before, Goal |-> <<>>, twice |-> FALSE,
                   ret |-> frame # "none"]
        IN  /\ mbar' = IF frame # "none"
                       THEN win_insert_menu_lambda(mbar, frame, Label, Before)
                       ELSE mbar
            /\ lastOp' = [op EXCEPT !.twice = ([lastOp EXCEPT !.twice = FALSE] = op)]
            /\ UNCHANGED <<frame, treeVars, propVars, lastCall, dispVars>>

\* win_insert_menu_item(+Pulldown, +Label, +Before, :Goal)
win_insert_menu_item ==
    \E Pulldown \in Pulldowns, Label \in ItemLabels, Before \in ItemBefores,
       Goal \in Goals :
        LET op == [op |-> "win_insert_menu_item", Pulldown |-> Pulldown,
                   Label |-> Label, Before |-> Before, Goal |-> Goal,
                   twice |-> FALSE, ret |-> frame # "none"]
            nbar == IF frame # "none"
                    THEN win_insert_menu_item_lambda(mbar, frame, Pulldown, Label,
                                                     Before, Goal)
                    ELSE mbar
        IN  /\ TotalItems(nbar) <= MaxItems
            /\ mbar' = nbar
            /\ lastOp' = [op EXCEPT !.twice = ([lastOp EXCEPT !.twice = FALSE] = op)]
            /\ UNCHANGED <<frame, treeVars, propVars, lastCall, dispVars>>

NextMenu == win_insert_menu \/ win_insert_menu_item

SpecMenu == InitMenu /\ [][NextMenu]_vars

(***************************************************************************)
(* Menu bridge: properties                                                 *)
(***************************************************************************)
MenuCount(bar, text) == Cardinality({k \in 1..Len(bar) : bar[k].text = text})

HasMenu(bar, text) == \E k \in 1..Len(bar) : bar[k].text = text

\* the step is a call of win_insert_menu on a console framed by a main window
MenuCallStep == lastOp'.op = "win_insert_menu" /\ frame = "QMainWindow"

\* C4 (as stated): on a console hosted by a main window, win_insert_menu called
\* twice with the same Label and the same Before leaves exactly one top-level
\* menu with that label, and the second call leaves the menu bar unchanged.
C4_ExactlyOneMenu ==
    [][(MenuCallStep /\ lastOp'.twice) =>
          /\ MenuCount(mbar', lastOp'.Label) = 1
          /\ mbar' = mbar]_vars

\* C4 (amended): on a console hosted by a main window, no call of
\* win_insert_menu leaves more than one top-level menu with its Label; the
\* second of two calls with the same Label and Before leaves the menu bar
\* unchanged, and then exactly one menu has that label whenever Before is "-"
\* or the label of a menu on the bar; a call whose Label is not on the bar and
\* whose Before is neither "-" nor on the bar creates nothing.
C4_Idempotent ==
    [][MenuCallStep =>
          /\ MenuCount(mbar', lastOp'.Label) <= 1
          /\ lastOp'.twice => mbar' = mbar
          /\ (lastOp'.twice /\ (lastOp'.Before = "-" \/ HasMenu(mbar', lastOp'.Before)))
                => MenuCount(mbar', lastOp'.Label) = 1
          /\ (/\ ~HasMenu(mbar, lastOp'.Label)
              /\ ~HasMenu(mbar, lastOp'.Before)
              /\ lastOp'.Before # "-") => mbar' = mbar]_vars

\* the same call was made twice, the menu is on the bar once, beside another
C4_Witness ==
    /\ lastOp.op = "win_insert_menu" /\ lastOp.twice /\ frame = "QMainWindow"
    /\ MenuCount(mbar, lastOp.Label) = 1
    /\ Len(mbar) = 2

\* t ends with the goal text g
EndsWith(t, g) ==
    Len(t) >= Len(g) /\ SubSeq(t, Len(t) - Len(g) + 1, Len(t)) = g

\* bar2 is bar1 but for the tool tip of item k of menu m, which now holds g
OnlyGoalChanged(bar1, bar2, m, k, g) ==
    \E tt \in {bar2[m].items[k].toolTip} :
        /\ EndsWith(tt, g)
        /\ bar2 = [bar1 EXCEPT ![m].items[k].toolTip = tt]

\* menu m is the first one named P and its item k the first one labelled L
FirstItem(bar, m, k, P, L) ==
    /\ bar[m].text = P
    /\ \A j \in 1..(m - 1) : bar[j].text # P
    /\ bar[m].items[k].text = L
    /\ \A j \in 1..(k - 1) : bar[m].items[j].text # L

\* the step is a call of win_insert_menu_item on a console framed by a main window
ItemCallStep == lastOp'.op = "win_insert_menu_item" /\ frame = "QMainWindow"

\* C5 (as stated): win_insert_menu_item called with an item Label that already
\* exists in the named pulldown changes only that item's bound goal: the items
\* of the pulldown, their order, their labels and the other goals stay.
C5_AnyExistingLabel ==
    [][ItemCallStep =>
          \A m \in 1..Len(mbar) : \A k \in 1..Len(mbar[m].items) :
              FirstItem(mbar, m, k, lastOp'.Pulldown, lastOp'.Label) =>
                  OnlyGoalChanged(mbar, mbar', m, k, lastOp'.Goal)]_vars

\* C5 (amended): win_insert_menu_item called with an item Label other than
\* the separator sentinel "--" that already exists in the named pulldown
\* changes only the bound goal of the first item with that label: the number
\* of items, their order, their labels and the goals of all other items are
\* unchanged, whatever Before is.
C5_RebindOnly ==
    [][(ItemCallStep /\ lastOp'.Label # "--") =>
          \A m \in 1..Len(mbar) : \A k \in 1..Len(mbar[m].items) :
              FirstItem(mbar, m, k, lastOp'.Pulldown, lastOp'.Label) =>
                  OnlyGoalChanged(mbar, mbar', m, k, lastOp'.Goal)]_vars

\* an existing item, not the last of its pulldown, was bound again by a call
\* whose Before is a label
C5_Witness ==
    /\ lastOp.op = "win_insert_menu_item" /\ frame = "QMainWindow"
    /\ lastOp.Label # "--" /\ lastOp.Before # "-"
    /\ \E m \in 1..Len(mbar) : \E k \in 1..Len(mbar[m].items) :
          /\ FirstItem(mbar, m, k, lastOp.Pulldown, lastOp.Label)
          /\ mbar[m].items[k].toolTip = lastOp.Goal
          /\ k < Len(mbar[m].items)

\* the text Module:Goal
ModuleGoal(g) == ctxtmod \o <<":">> \o g

\* C6: the stored text of every actionable (non-separator) item has the form
\* Module:Goal, and the item a call of win_insert_menu_item has just bound
\* stores Module:Goal with the Goal of that call.
C6_StoresModuleGoal ==
    /\ \A m \in 1..Len(mbar) : \A k \in 1..Len(mbar[m].items) :
          ~mbar[m].items[k].sep =>
              \E g \in Goals \cup {<<>>} : mbar[m].items[k].toolTip = ModuleGoal(g)
    /\ (lastOp.op = "win_insert_menu_item" /\ frame = "QMainWindow"
            /\ lastOp.Label # "--") =>
          \A m \in 1..Len(mbar) : \A k \in 1..Len(mbar[m].items) :
              FirstItem(mbar, m, k, lastOp.Pulldown, lastOp.Label) =>
                  mbar[m].items[k].toolTip = ModuleGoal(lastOp.Goal)

\* C10: no two actionable items of a pulldown have the same label.
C10_LabelsDistinct ==
    \A m \in 1..Len(mbar) : \A j, k \in 1..Len(mbar[m].items) :
        (/\ j < k
         /\ ~mbar[m].items[j].sep
         /\ ~mbar[m].items[k].sep) => mbar[m].items[j].text # mbar[m].items[k].text

(***************************************************************************)
(* SpecProps: the property bridge.  A term is [type, val] with the type    *)
(* PlTerm::type() reports; a property descriptor is what QMetaProperty     *)
(* tells unify: its QVariant type, whether it is an enumeration (with the  *)
(* QMetaEnum name table) and whether it can be written.                    *)
(***************************************************************************)
Var == [type |-> "PL_VARIABLE", val |-> "_"]
Atom(a) == [type |-> "PL_ATOM", val |-> a]
Int32(i) == [type |-> "PL_INTEGER", val |-> i]

NoKeys == [k \in {} |-> 0]

\* the reflected properties of the console the model follows
MetaObject ==
    [readOnly          |-> [type |-> "Bool", isEnum |-> FALSE, keys |-> NoKeys,
                            writable |-> TRUE],
     maximumBlockCount |-> [type |-> "Int", isEnum |-> FALSE, keys |-> NoKeys,
                            writable |-> TRUE],
     lineWrapMode      |-> [type |-> "Int", isEnum |-> TRUE,
                            keys |-> [k \in {"NoWrap", "WidgetWidth"} |->
                                         IF k = "NoWrap" THEN 0 ELSE 1],
                            writable |-> TRUE],
     documentTitle     |-> [type |-> "String", isEnum |-> FALSE, keys |-> NoKeys,
                            writable |-> TRUE]]

PropertyNames == DOMAIN MetaObject

\* c->metaObject()->indexOfProperty(name) >= 0
indexOfProperty(name) == name \in PropertyNames

\* QMetaEnum::keyToValue: the value of the key, -1 when there is no such key
keyToValue(p, key) == IF key \in DOMAIN p.keys THEN p.keys[key] ELSE -1

\* QMetaEnum::valueToKey: a key with that value, "" (null) when there is none
valueToKey(p, value) ==
    IF \E k \in DOMAIN p.keys : p.keys[k] = value
    THEN CHOOSE k \in DOMAIN p.keys : p.keys[k] = value
    ELSE ""

\* the outcome of unify: the object's properties, the term after the call (the
\* value a variable got bound to, the term itself when it was bound already)
\* and the exception thrown ("": none)
Unified(o, b) == [o |-> o, bound |-> b, exc |-> ""]
Mismatch(o) == [o |-> o, bound |-> Var, exc |-> "property type mismatch"]

\* unify(p, o, v), name being the property p describes.  No property of
\* MetaObject is unsigned, so the QVariant::UInt arms are left out.
unify(name, o, v) ==
    LET p == MetaObject[name]
    IN  CASE v.type = "PL_VARIABLE" ->
               (CASE p.type = "Bool" ->
                       Unified(o, Atom(IF o[name] THEN "true" ELSE "false"))
                  [] p.type = "Int" ->
                       IF p.isEnum /\ valueToKey(p, o[name]) # ""
                       THEN Unified(o, Atom(valueToKey(p, o[name])))
                       ELSE Unified(o, Int32(o[name]))
                  [] p.type = "String" -> Unified(o, Atom(o[name]))
                  [] OTHER -> Mismatch(o))
          [] v.type = "PL_INTEGER" ->
               (CASE p.type = "Int" /\ p.writable ->
                       Unified([o EXCEPT ![name] = v.val], v)
                  [] OTHER -> Mismatch(o))
          [] v.type = "PL_ATOM" ->
               (CASE p.type = "String" /\ p.writable ->
                       Unified([o EXCEPT ![name] = v.val], v)
                  [] p.type \in {"String", "Int"} /\ ~(p.type = "String" /\ p.writable)
                       /\ p.isEnum /\ keyToValue(p, v.val) # -1 ->
                       Unified(IF p.writable
                               THEN [o EXCEPT ![name] = keyToValue(p, v.val)]
                               ELSE o, v)
                  [] OTHER -> Mismatch(o))
          [] v.type = "PL_FLOAT" ->
               (CASE p.type = "Double" /\ p.writable ->
                       Unified([o EXCEPT ![name] = v.val], v)
                  [] OTHER -> Mismatch(o))
          [] OTHER -> Mismatch(o)

\* the options a caller passes: name(Value) and name(-Value) for the properties
\* of the console, one naming no property and one of arity 2
OptionNames == {"readOnly", "maximumBlockCount", "lineWrapMode", "documentTitle"}
OptionArgs == {Var, Int32(100), Atom("true"), Atom("WidgetWidth")}
Options == [name : OptionNames, arity : {1}, arg : OptionArgs]
              \cup {[name |-> "noSuchProperty", arity |-> 1, arg |-> Var],
                    [name |-> "readOnly", arity |-> 2, arg |-> Var]}

RECURSIVE OptionLists(_)
OptionLists(n) ==
    IF n = 0 THEN {<<>>}
    ELSE LET shorter == OptionLists(n - 1)
         IN  shorter \cup {Append(l, x) : l \in {s \in shorter : Len(s) = n - 1},
                                          x \in Options}

\* the lists console_settings is called with
SettingsLists == OptionLists(MaxOpts)

\* for (PlTail opts(A1); opts.next(opt); ): the options from the k-th on; acc is
\* [o, bound, ret], bound holding the binding of every option's argument
RECURSIVE settings_loop(_, _, _)
settings_loop(opts, k, acc) ==
    IF k > Len(opts) THEN [acc EXCEPT !.ret = "TRUE"]
    ELSE IF opts[k].arity # 1
    THEN [o |-> acc.o, bound |-> <<>>, ret |-> "properties have arity 1"]
    ELSE IF ~indexOfProperty(opts[k].name)
    THEN [o |-> acc.o, bound |-> <<>>, ret |-> "property not found"]
    ELSE LET u == unify(opts[k].name, acc.o, opts[k].arg)
         IN  IF u.exc # ""
             THEN [o |-> u.o, bound |-> <<>>, ret |-> u.exc]
             ELSE settings_loop(opts, k + 1,
                                [acc EXCEPT !.o = u.o, !.bound = Append(@, u.bound)])

InitProps ==
    /\ frame \in {"none", "QMainWindow"}
    /\ props \in [readOnly : BOOLEAN, maximumBlockCount : {0}, lineWrapMode : {0, 1},
                  documentTitle : {""}]
    /\ lastSet = NoSet
    /\ TreeIdle
    /\ mbar = <<>> /\ lastOp = NoOp
    /\ CallsIdle
    /\ DispIdle

\* console_settings(Options): FALSE without a console of the calling thread,
\* else every option in turn, an exception ending the call
console_settings ==
    \E opts \in SettingsLists :
        LET r == IF frame = "none"
                 THEN [o |-> props, bound |-> <<>>, ret |-> "FALSE"]
                 ELSE settings_loop(opts, 1, [o |-> props, bound |-> <<>>, ret |-> ""])
        IN  /\ props' = r.o
            /\ lastSet' = [opts |-> opts, ret |-> r.ret, bound |-> r.bound]
            /\ UNCHANGED <<treeVars, menuVars, lastCall, dispVars>>

NextProps == console_settings

SpecProps == InitProps /\ [][NextProps]_vars

(***************************************************************************)
(* Property bridge: properties                                             *)
(***************************************************************************)
\* v is a value of the kind of property name: the atoms true and false for a
\* boolean, a key of the name table for an enumeration, an integer for an
\* integer, an atom for a string
ValueOfKind(name, v) ==
    LET p == MetaObject[name]
    IN  CASE p.type = "Bool" -> v \in {Atom("true"), Atom("false")}
          [] p.type = "Int" /\ p.isEnum -> v.type = "PL_ATOM" /\ v.val \in DOMAIN p.keys
          [] p.type = "Int" /\ ~p.isEnum -> v.type = "PL_INTEGER"
          [] p.type = "String" -> v.type = "PL_ATOM"
          [] OTHER -> FALSE

\* the last call wrote v to a property and read the same property back
WroteThenRead(name, v) ==
    /\ frame # "none"
    /\ lastSet.opts = <<[name |-> name, arity |-> 1, arg |-> v],
                        [name |-> name, arity |-> 1, arg |-> Var]>>

\* C7: for every supported property kind (boolean, integer, enum-by-name,
\* string), writing a value with name(Value) and then reading the property
\* with name(-X) succeeds and binds X to the value written.
C7_RoundTrip ==
    \A name \in PropertyNames : \A v \in OptionArgs :
        (ValueOfKind(name, v) /\ WroteThenRead(name, v)) =>
            /\ lastSet.ret = "TRUE"
            /\ lastSet.bound = <<v, v>>

\* the same, for the kinds other than boolean
C7_RoundTripButBoolean ==
    \A name \in PropertyNames : \A v \in OptionArgs :
        (MetaObject[name].type # "Bool" /\ ValueOfKind(name, v)
             /\ WroteThenRead(name, v)) =>
            /\ lastSet.ret = "TRUE"
            /\ lastSet.bound = <<v, v>>

(***************************************************************************)
(* SpecCalls: every foreign predicate of the interface, called by a        *)
(* runtime worker thread: which console it resolves, what it returns and   *)
(* what it does.  An effect is [what, on, widget]: on is "caller" for a    *)
(* statement of the predicate itself, which runs on the calling worker     *)
(* thread, "gui" for a statement of a closure handed to exec_func, and     *)
(* "ConsoleEdit" for a call of a ConsoleEdit method whose body decides the *)
(* thread; widget tells whether the effect changes widget state.           *)
(***************************************************************************)
Eff(what, on, widget) == [what |-> what, on |-> on, widget |-> widget]

Outcome(ret, effects) == [ret |-> ret, effects |-> effects]

\* a window of the application: what frames the console ("none": the console
\* is a top-level widget itself) and the thread the console belongs to (0: the
\* window holds a plain widget, no console)
Window == [frame : {"QMainWindow", "QWidget", "none"}, thid : {0} \cup Threads]

RECURSIVE WindowLists(_)
WindowLists(n) ==
    IF n = 0 THEN {<<>>}
    ELSE LET shorter == WindowLists(n - 1)
         IN  shorter \cup {Append(l, w) : l \in {s \in shorter : Len(s) = n - 1},
                                          w \in {x \in Window : x.frame = "none"
                                                                   => x.thid # 0}}

\* the forest of a list of windows: each frame with its one child
RECURSIVE ForestOf(_, _)
ForestOf(wins, ws) ==
    IF wins = <<>> THEN ws
    ELSE LET w == Head(wins)
             child == [parent |-> Len(ws) + 1,
                       kind |-> IF w.thid = 0 THEN "QWidget" ELSE "ConsoleEdit",
                       thid |-> w.thid]
         IN  ForestOf(Tail(wins),
                      IF w.frame = "none"
                      THEN Append(ws, [child EXCEPT !.parent = 0])
                      ELSE ws \o <<[parent |-> 0, kind |-> w.frame, thid |-> 0], child>>)

\* qobject_cast<QMainWindow*>(c->parentWidget()) is not null
framedByMainWindow(ws, c) ==
    ws[c].parent # 0 /\ ws[ws[c].parent].kind = "QMainWindow"

\* window_title(-Old, +New)
PREDICATE_window_title(ws, t) ==
    LET c == console_by_thread(ws, t)
    IN  IF c # NoWidget /\ framedByMainWindow(ws, c)
        THEN {Outcome("TRUE", {Eff("A1 = windowTitle", "caller", FALSE),
                               Eff("setWindowTitle", "caller", TRUE)})}
        ELSE {Outcome("FALSE", {})}

\* the option lists win_window_pos is called with
WindowPosOptions ==
    {<<>>, <<"size">>, <<"position">>, <<"zorder">>, <<"show">>, <<"activate">>,
     <<"bogus">>, <<"size", "bogus">>, <<"position", "show">>}

\* while (options.next(opt)) { ... }: the effect of one option, "" for zorder
window_pos_option(o) ==
    CASE o = "size" -> {Eff("resize", "caller", TRUE)}
      [] o = "position" -> {Eff("move", "caller", TRUE)}
      [] o = "show" -> {Eff("show/hide", "caller", TRUE)}
      [] o = "activate" -> {Eff("activateWindow", "caller", TRUE)}
      [] OTHER -> {}

RECURSIVE window_pos_loop(_, _)
window_pos_loop(opts, done) ==
    IF opts = <<>> THEN Outcome("TRUE", done)
    ELSE IF Head(opts) \notin {"size", "position", "zorder", "show", "activate"}
    THEN Outcome("FALSE", done)
    ELSE window_pos_loop(Tail(opts), done \cup window_pos_option(Head(opts)))

\* win_window_pos(Options)
PREDICATE_win_window_pos(ws, t) ==
    LET c == console_by_thread(ws, t)
    IN  IF c = NoWidget \/ ws[c].parent = 0
        THEN {Outcome("FALSE", {})}
        ELSE {window_pos_loop(opts, {}) : opts \in WindowPosOptions}

\* win_has_menu
PREDICATE_win_has_menu(ws, t) ==
    LET c == console_by_thread(ws, t)
    IN  {Outcome(IF c # NoWidget /\ framedByMainWindow(ws, c) THEN "TRUE" ELSE "FALSE",
                 {})}

\* a predicate that hands one closure to exec_func and returns TRUE
fire_and_forget(ws, t, effects) ==
    IF console_by_thread(ws, t) # NoWidget
    THEN {Outcome("TRUE", effects)}
    ELSE {Outcome("FALSE", {})}

\* win_insert_menu(+Label, +Before): the closure changes the menu bar or not
PREDICATE_win_insert_menu(ws, t) ==
    fire_and_forget(ws, t, {Eff("exec_func", "caller", FALSE)})
      \cup fire_and_forget(ws, t, {Eff("exec_func", "caller", FALSE),
                                   Eff("insertMenu/addMenu", "gui", TRUE)})

\* win_insert_menu_item(+Pulldown, +Label, +Before, :Goal)
PREDICATE_win_insert_menu_item(ws, t) ==
    fire_and_forget(ws, t, {Eff("exec_func", "caller", FALSE)})
      \cup fire_and_forget(ws, t, {Eff("exec_func", "caller", FALSE),
                                   Eff("add_action/setToolTip", "gui", TRUE)})

\* tty_clear
PREDICATE_tty_clear(ws, t) ==
    IF console_by_thread(ws, t) # NoWidget
    THEN {Outcome("TRUE", {Eff("tty_clear", "ConsoleEdit", TRUE)})}
    ELSE {Outcome("FALSE", {})}

\* win_open_console(Title, In, Out, Err, Options): the first console of any
\* thread; the streams unify with A2..A4 or the predicate fails
PREDICATE_win_open_console(ws, t) ==
    IF console_peek_first(ws) = NoWidget
    THEN {Outcome("no ConsoleEdit available", {})}
    ELSE {Outcome(r, {Eff("Snew", "caller", FALSE),
                      Eff("new_console", "ConsoleEdit", TRUE)}
                       \cup (IF r = "TRUE"
                             THEN {Eff("PL_unify_stream", "caller", FALSE)}
                             ELSE {Eff("Sclose", "caller", FALSE)})) :
             r \in {"TRUE", "FALSE"}}

\* rl_add_history(Line): an empty line is not added
PREDICATE_rl_add_history(ws, t) ==
    IF console_by_thread(ws, t) # NoWidget
    THEN {Outcome("TRUE", {}),
          Outcome("TRUE", {Eff("add_history_line", "ConsoleEdit", TRUE)})}
    ELSE {Outcome("FALSE", {})}

\* rl_read_init_file(Flag): no console is needed
PREDICATE_rl_read_init_file(ws, t) == {Outcome("TRUE", {})}

\* $rl_history(-Lines)
PREDICATE_rl_history(ws, t) ==
    IF console_by_thread(ws, t) # NoWidget
    THEN {Outcome("TRUE", {Eff("A1 = history_lines", "caller", FALSE)})}
    ELSE {Outcome("FALSE", {})}

\* tty_size(-Rows, -Cols)
PREDICATE_tty_size(ws, t) ==
    IF console_by_thread(ws, t) # NoWidget
    THEN {Outcome("TRUE", {Eff("A1 = Rows, A2 = Cols", "caller", FALSE)})}
    ELSE {Outcome("FALSE", {})}

\* the properties of a console no option has been applied to
DefaultProps ==
    [readOnly |-> FALSE, maximumBlockCount |-> 0, lineWrapMode |-> 1,
     documentTitle |-> ""]

\* console_settings(Options): unify runs on the calling thread
PREDICATE_console_settings(ws, t) ==
    IF console_by_thread(ws, t) = NoWidget
    THEN {Outcome("FALSE", {})}
    ELSE {LET r == settings_loop(opts, 1, [o |-> DefaultProps, bound |-> <<>>,
                                           ret |-> ""])
          IN  Outcome(r.ret,
                      (IF r.o # DefaultProps
                       THEN {Eff("QMetaProperty::write", "caller", TRUE)} ELSE {})
                        \cup (IF \E k \in 1..Len(r.bound) : opts[k].arg = Var
                              THEN {Eff("opt[1] = property", "caller", FALSE)} ELSE {})) :
             opts \in OptionLists(1)}

\* the same without the test of the console: the closure is always posted
fire_and_wait_unchecked(ws, t, accepted) ==
    {Outcome("TRUE", {Eff("exec_func", "caller", FALSE),
                      Eff("exec_sync::stop", "caller", FALSE)} \cup accepted),
     Outcome("FALSE", {Eff("exec_func", "caller", FALSE),
                       Eff("exec_sync::stop", "caller", FALSE)})}

\* a predicate that hands a closure to exec_func and waits for it in stop():
\* the closure runs a modal dialog, which the user accepts (TRUE) or cancels
fire_and_wait(ws, t, accepted) ==
    IF console_by_thread(ws, t) # NoWidget
    THEN {Outcome("TRUE", {Eff("exec_func", "caller", FALSE),
                           Eff("exec_sync::stop", "caller", FALSE)} \cup accepted),
          Outcome("FALSE", {Eff("exec_func", "caller", FALSE),
                            Eff("exec_sync::stop", "caller", FALSE)})}
    ELSE {Outcome("FALSE", {})}

\* getOpenFileName(+Title, ?StartPath, +Pattern, -Choice)
PREDICATE_getOpenFileName(ws, t) ==
    fire_and_wait(ws, t, {Eff("A4 = Choice", "caller", FALSE)})

\* getSaveFileName(+Title, ?StartPath, +Pattern, -Choice)
PREDICATE_getSaveFileName(ws, t) ==
    fire_and_wait(ws, t, {Eff("A4 = Choice", "caller", FALSE)})

\* select_font
PREDICATE_select_font(ws, t) ==
    fire_and_wait(ws, t, {Eff("setFont", "gui", TRUE)})

\* quit_console
PREDICATE_quit_console(ws, t) ==
    fire_and_forget(ws, t, {Eff("exec_func", "caller", FALSE),
                            Eff("qApp->quit", "gui", FALSE)})

\* copy
PREDICATE_copy(ws, t) ==
    fire_and_forget(ws, t, {Eff("exec_func", "caller", FALSE),
                            Eff("clipboard()->setText", "gui", FALSE)})

\* paste
PREDICATE_paste(ws, t) ==
    fire_and_forget(ws, t, {Eff("exec_func", "caller", FALSE),
                            Eff("textCursor().insertText", "gui", TRUE)})

\* the predicates that look for the console of the calling thread
ByThreadPredicates ==
    {"window_title", "win_window_pos", "win_has_menu", "win_insert_menu",
     "win_insert_menu_item", "tty_clear", "rl_add_history", "rl_history",
     "tty_size", "console_settings", "getOpenFileName", "getSaveFileName",
     "select_font", "quit_console", "copy", "paste"}

Predicates == ByThreadPredicates \cup {"win_open_console", "rl_read_init_file"}

\* the outcomes of predicate name called by thread t
PREDICATE(name, ws, t) ==
    CASE name = "window_title" -> PREDICATE_window_title(ws, t)
      [] name = "win_window_pos" -> PREDICATE_win_window_pos(ws, t)
      [] name = "win_has_menu" -> PREDICATE_win_has_menu(ws, t)
      [] name = "win_insert_menu" -> PREDICATE_win_insert_menu(ws, t)
      [] name = "win_insert_menu_item" -> PREDICATE_win_insert_menu_item(ws, t)
      [] name = "tty_clear" -> PREDICATE_tty_clear(ws, t)
      [] name = "win_open_console" -> PREDICATE_win_open_console(ws, t)
      [] name = "rl_add_history" -> PREDICATE_rl_add_history(ws, t)
      [] name = "rl_read_init_file" -> PREDICATE_rl_read_init_file(ws, t)
      [] name = "rl_history" -> PREDICATE_rl_history(ws, t)
      [] name = "tty_size" -> PREDICATE_tty_size(ws, t)
      [] name = "console_settings" -> PREDICATE_console_settings(ws, t)
      [] name = "getOpenFileName" -> PREDICATE_getOpenFileName(ws, t)
      [] name = "getSaveFileName" -> PREDICATE_getSaveFileName(ws, t)
      [] name = "select_font" -> PREDICATE_select_font(ws, t)
      [] name = "quit_console" -> PREDICATE_quit_console(ws, t)
      [] name = "copy" -> PREDICATE_copy(ws, t)
      [] name = "paste" -> PREDICATE_paste(ws, t)

InitCalls ==
    /\ widgets \in {ForestOf(wins, <<>>) : wins \in WindowLists(MaxWindows)}
    /\ found = NoCall
    /\ lastCall = NoPredicate
    /\ MenuIdle
    /\ PropsIdle
    /\ DispIdle

\* a worker thread calls a predicate; the console the locator gives it is kept
CallPredicate ==
    \E name \in Predicates, t \in Threads :
        \E r \in PREDICATE(name, widgets, t) :
            /\ lastCall' = [name |-> name, thid |-> t, ret |-> r.ret,
                            effects |-> r.effects]
            /\ UNCHANGED <<treeVars, menuVars, propVars, dispVars>>

NextCalls == CallPredicate

SpecCalls == InitCalls /\ [][NextCalls]_vars

(***************************************************************************)
(* Foreign predicates: properties                                          *)
(***************************************************************************)
\* C2: no predicate running on a worker thread changes widget state except
\* inside a unit of work handed to the GUI thread through exec_func.
C2_WidgetsOnGuiThread ==
    \A e \in lastCall.effects : (e.widget /\ e.on # "ConsoleEdit") => e.on = "gui"

\* no widget of the forest is a console of thread t
NoConsoleOf(t) ==
    \A i \in 1..Len(widgets) :
        ~(widgets[i].kind = "ConsoleEdit" /\ widgets[i].thid = t)

NoConsoleAtAll == \A i \in 1..Len(widgets) : widgets[i].kind # "ConsoleEdit"

\* C8 (as stated): every predicate that needs a console, win_open_console
\* included, resolves it by the calling thread's identity and, when none is
\* found, returns an ordinary failure: it neither succeeds nor raises, and has
\* no effect.
C8_AllFailOutright ==
    (lastCall.name \in ByThreadPredicates \cup {"win_open_console"}
        /\ NoConsoleOf(lastCall.thid)) =>
            lastCall.ret = "FALSE" /\ lastCall.effects = {}

\* C8 (amended): every predicate that needs a console, other than
\* win_open_console, resolves it by the calling thread's identity and, when
\* none is found, returns an ordinary failure with no effect; win_open_console
\* takes the first console of any thread, and raises the error "no ConsoleEdit
\* available", with no effect, when the application has no console at all.
C8_FailOutright ==
    /\ (lastCall.name \in ByThreadPredicates /\ NoConsoleOf(lastCall.thid)) =>
            lastCall.ret = "FALSE" /\ lastCall.effects = {}
    /\ lastCall.name = "win_open_console" =>
            IF NoConsoleAtAll
            THEN lastCall.ret = "no ConsoleEdit available" /\ lastCall.effects = {}
            ELSE lastCall.ret \in {"TRUE", "FALSE"} /\ lastCall.effects # {}

\* a thread with no console of its own called a predicate while another
\* thread's console was there, and failed
C8_Witness ==
    /\ lastCall.name = "getOpenFileName"
    /\ NoConsoleOf(lastCall.thid)
    /\ ~NoConsoleAtAll
    /\ lastCall.ret = "FALSE"

(***************************************************************************)
(* Spec: the cross-thread dispatch.  Worker threads call the predicates    *)
(* that wait for their closure (getOpenFileName, getSaveFileName,          *)
(* select_font) and quit_console, which does not; the GUI thread takes the *)
(* closures from the queue of exec_func one at a time and runs their       *)
(* statements in order; the user closes windows.                           *)
(***************************************************************************)
\* the statements of the closure, the signal first
lambda_go_first(name) ==
    IF name = "quit_console" THEN <<"quit">> ELSE <<"go", "work">>

\* the statements of the closure a predicate hands to exec_func, in order:
\*   Choice = QFileDialog::get...FileName(...); s.go();
\*   QFont font = QFontDialog::getFont(&ok, ...); if (ok) setFont; s.go();
\*   qApp->quit();
lambda(name) ==
    IF name = "quit_console" THEN <<"quit">> ELSE <<"work", "go">>

\* the predicate goes on to read the result right after exec_func
after_exec_func_return(name) ==
    IF name = "quit_console" THEN "idle" ELSE "read"

\* where the predicate is after exec_func: in s.stop() when it declared an
\* exec_sync, back in the runtime ("idle") when it did not
after_exec_func(name) ==
    IF name = "quit_console" THEN "idle" ELSE "stop"

\* the results a modal dialog can leave: the path chosen or the empty string
\* of a cancelled file dialog, the flag ok of the font dialog
DialogResults(name) ==
    IF name = "select_font"
    THEN {[Choice |-> "", ok |-> TRUE], [Choice |-> "", ok |-> FALSE]}
    ELSE {[Choice |-> "/home/user/file.pl", ok |-> FALSE],
          [Choice |-> "", ok |-> FALSE]}

\* QString Choice; bool ok = false;
NoResult == [Choice |-> "", ok |-> FALSE]

\* the value the predicate returns once stop() has returned
return_value(name, result) ==
    IF name = "select_font"
    THEN (IF result.ok THEN "TRUE" ELSE "FALSE")
    ELSE (IF result.Choice # "" THEN "TRUE" ELSE "FALSE")

\* ConsoleEdit::exec_func(f): f joins the closures waiting for the GUI thread
exec_func(q, f) == Append(q, f)

\* ConsoleEdit::exec_sync::stop() returns once go() has been called
exec_sync_stop_returns(s) == s

NoTask == [name |-> "none", thid |-> 0, ce |-> NoWidget, k |-> 0]

WaitingPredicates == {"getOpenFileName", "getSaveFileName", "select_font"}

Init ==
    /\ widgets = ForestOf([t \in 1..Cardinality(Threads) |->
                              [frame |-> "QMainWindow", thid |-> t]], <<>>)
    /\ pc = [t \in Threads |-> "idle"]
    /\ call = [t \in Threads |-> "none"]
    /\ queue = <<>>
    /\ gui = [running |-> TRUE, cur |-> NoTask]
    /\ sync = [t \in Threads |-> FALSE]
    /\ out = [t \in Threads |-> NoResult]
    /\ work = [t \in Threads |-> "none"]
    /\ retval = [t \in Threads |-> "none"]
    /\ found = NoCall
    /\ MenuIdle
    /\ PropsIdle
    /\ CallsIdle

otherVars == <<found, menuVars, propVars, lastCall>>

\* a predicate up to its return or its s.stop(): FALSE without a console of
\* the calling thread, else the closure is handed over
Submit(t, name) ==
    /\ pc[t] = "idle"
    /\ Len(queue) < MaxQueue
    /\ LET c == console_by_thread(widgets, t)
       IN  IF c = NoWidget
           THEN /\ retval' = [retval EXCEPT ![t] = "FALSE"]
                /\ call' = [call EXCEPT ![t] = name]
                /\ sync' = [sync EXCEPT ![t] = FALSE]
                /\ out' = [out EXCEPT ![t] = NoResult]
                /\ work' = [work EXCEPT ![t] = "none"]
                /\ UNCHANGED <<pc, queue>>
           ELSE /\ queue' = exec_func(queue, [name |-> name, thid |-> t,
                                               ce |-> c, k |-> 1])
                /\ pc' = [pc EXCEPT ![t] = after_exec_func(name)]
                /\ call' = [call EXCEPT ![t] = name]
                /\ sync' = [sync EXCEPT ![t] = FALSE]
                /\ out' = [out EXCEPT ![t] = NoResult]
                /\ work' = [work EXCEPT ![t] =
                               IF name \in WaitingPredicates THEN "queued" ELSE "none"]
                /\ retval' = [retval EXCEPT ![t] =
                               IF name \in WaitingPredicates THEN "none" ELSE "TRUE"]
    /\ UNCHANGED <<widgets, gui, otherVars>>

getOpenFileName(t) == Submit(t, "getOpenFileName")

getSaveFileName(t) == Submit(t, "getSaveFileName")

select_font(t) == Submit(t, "select_font")

quit_console(t) == Submit(t, "quit_console")

\* s.stop() returns to the predicate
exec_sync_stop(t) ==
    /\ pc[t] = "stop"
    /\ exec_sync_stop_returns(sync[t])
    /\ pc' = [pc EXCEPT ![t] = "read"]
    /\ UNCHANGED <<widgets, call, queue, gui, sync, out, work, retval, otherVars>>

\* the predicate reads Choice (ok) and returns
predicate_return(t) ==
    /\ pc[t] = "read"
    /\ retval' = [retval EXCEPT ![t] = return_value(call[t], out[t])]
    /\ pc' = [pc EXCEPT ![t] = "idle"]
    /\ UNCHANGED <<widgets, call, queue, gui, sync, out, work, otherVars>>

\* the event loop of the GUI thread takes the next closure
gui_dispatch ==
    /\ gui.running
    /\ gui.cur = NoTask
    /\ queue # <<>>
    /\ gui' = [gui EXCEPT !.cur = Head(queue)]
    /\ queue' = Tail(queue)
    /\ work' = IF Head(queue).name \in WaitingPredicates
               THEN [work EXCEPT ![Head(queue).thid] = "running"]
               ELSE work
    /\ UNCHANGED <<widgets, pc, call, sync, out, retval, otherVars>>

\* the GUI thread runs the next statement of the closure it has taken
gui_step ==
    /\ gui.cur # NoTask
    /\ LET f == gui.cur
           stmt == lambda(f.name)[f.k]
           next == IF f.k = Len(lambda(f.name)) THEN NoTask ELSE [f EXCEPT !.k = @ + 1]
       IN  CASE stmt = "work" ->
                  /\ \E r \in DialogResults(f.name) : out' = [out EXCEPT ![f.thid] = r]
                  /\ work' = [work EXCEPT ![f.thid] = "done"]
                  /\ gui' = [gui EXCEPT !.cur = next]
                  /\ UNCHANGED sync
             [] stmt = "go" ->
                  /\ sync' = [sync EXCEPT ![f.thid] = TRUE]
                  /\ gui' = [gui EXCEPT !.cur = next]
                  /\ UNCHANGED <<out, work>>
             [] stmt = "quit" ->
                  /\ gui' = [running |-> FALSE, cur |-> next]
                  /\ UNCHANGED <<sync, out, work>>
    /\ UNCHANGED <<widgets, pc, call, queue, retval, otherVars>>

RECURSIVE Subtree(_, _)
Subtree(ws, w) ==
    {w} \cup UNION {Subtree(ws, c) : c \in {i \in 1..Len(ws) : ws[i].parent = w}}

\* the user closes top-level window w: it is destroyed with its children, and
\* the closures waiting for a destroyed console are never run
close_window ==
    \E w \in 1..Len(widgets) :
        /\ widgets[w].parent = 0
        /\ gui.cur.ce \notin Subtree(widgets, w)
        /\ LET gone == Subtree(widgets, w)
           IN  /\ widgets' = [i \in 1..Len(widgets) |->
                                 IF i \in gone
                                 THEN [parent |-> -1, kind |-> "destroyed", thid |-> 0]
                                 ELSE widgets[i]]
               /\ queue' = SelectSeq(queue, LAMBDA f : f.ce \notin gone)
               /\ work' = [t \in Threads |->
                              IF /\ work[t] = "queued"
                                 /\ \E k \in 1..Len(queue) :
                                       queue[k].thid = t /\ queue[k].ce \in gone
                                       /\ queue[k].name \in WaitingPredicates
                              THEN "dropped" ELSE work[t]]
        /\ UNCHANGED <<pc, call, gui, sync, out, retval, otherVars>>

Next ==
    \/ \E t \in Threads : getOpenFileName(t)
    \/ \E t \in Threads : getSaveFileName(t)
    \/ \E t \in Threads : select_font(t)
    \/ \E t \in Threads : quit_console(t)
    \/ \E t \in Threads : exec_sync_stop(t)
    \/ \E t \in Threads : predicate_return(t)
    \/ gui_dispatch
    \/ gui_step
    \/ close_window

Spec == Init /\ [][Next]_vars

(***************************************************************************)
(* Dispatch: properties                                                    *)
(***************************************************************************)
\* C1: a fire-and-wait call never gets past its wait before its unit of work
\* has completed on the GUI thread: the signal (go) is given only after the
\* work has completed, stop() returns only after the signal, and the value
\* the predicate returns is the one the GUI thread left.
C1_WaitCoversWork ==
    \A t \in Threads :
        /\ sync[t] => work[t] = "done"
        /\ pc[t] = "read" => (sync[t] /\ work[t] = "done")
        /\ (pc[t] = "idle" /\ call[t] \in WaitingPredicates /\ retval[t] # "none"
                /\ work[t] # "none") =>
              (work[t] = "done" /\ retval[t] = return_value(call[t], out[t]))

\* a predicate is back from stop() with the file the user chose
C1_Witness ==
    \E t \in Threads :
        /\ pc[t] = "read"
        /\ call[t] = "getOpenFileName"
        /\ out[t].Choice # ""

\* thread t is inside a fire-and-wait call whose unit of work has not started
\* and cannot start: the GUI thread has left its event loop, or the console
\* was destroyed and the closure with it
StuckCall(t) ==
    /\ pc[t] # "idle"
    /\ \/ work[t] = "dropped"
       \/ work[t] = "queued" /\ ~gui.running

\* C3: a fire-and-wait call whose unit of work is never executed on the GUI
\* thread never completes: the calling thread stays blocked in the wait, in
\* every step the system can take.
C3_BlocksForever ==
    [][\A t \in Threads :
          StuckCall(t) => (pc'[t] = "stop" /\ pc[t] = "stop" /\ StuckCall(t)')]_vars

\* a call waits for a closure the stopped GUI thread will not run, and
\* another waits for a closure that went with its console
C3_Witness ==
    \E t, u \in Threads :
        /\ pc[t] = "stop" /\ work[t] = "queued" /\ ~gui.running
        /\ pc[u] = "stop" /\ work[u] = "dropped"

====
